---- MODULE Spec2Model ----
(***************************************************************************)
(* Verification model of hridayarakshak: the ECGMonitor auto-trigger       *)
(* (arming, countdown, rate limit), the emergency-alert dispatcher, the    *)
(* signal analyzer, the ecg-ingest function and the connection status of   *)
(* useECGData.                                                             *)
(*                                                                         *)
(* Time is counted in countdown intervals (COUNTDOWN_INTERVAL_MS, one      *)
(* second).  The two timestamps the auto-trigger keeps, stSinceRef and     *)
(* lastTriggeredAt, are only ever read as "Date.now() - timestamp", so     *)
(* the model stores that difference (seconds elapsed since the timestamp   *)
(* was taken) and lets it saturate just above the window it is compared    *)
(* with.  The clock itself is therefore unbounded.                         *)
(*                                                                         *)
(* Every handler (state setter, effect body, interval callback, click      *)
(* handler, promise continuation) is one action: JavaScript runs each to   *)
(* completion.  The state updater the interval callback passes to          *)
(* setCountdown is applied either at once (React computes the state        *)
(* eagerly when the component has no update pending) or by the next        *)
(* render (the updater waits in the queue).                                *)
(***************************************************************************)
EXTENDS Integers, Sequences, FiniteSets, TLC

NULL == 0 - 1

\* ---- ECGMonitor.tsx constants ------------------------------------------
COUNTDOWN_INTERVAL_MS == 1000
TRIGGER_THRESHOLD == 25
SUSTAIN_SECONDS == 5
ARM_COUNTDOWN == 3
RATE_LIMIT_MS == 120000

\* the rate-limit window in countdown intervals
RateLimitTicks == RATE_LIMIT_MS \div COUNTDOWN_INTERVAL_MS

\* ---- emergency-alert constants ---------------------------------------
\* hospitalsWithDistance.slice(0, 5)
NEAREST_COUNT == 5

\* ---- bounds ------------------------------------------------------------
\* rows the hospitals and emergency_contacts tables may return
MaxHospitals == 6
MaxContacts == 2

\* the same reads in the handler with the WhatsApp and EmailJS channels
MaxChannelHospitals == 2
MaxChannelContacts == 2

\* rows of the hospitals table where the ranking is checked
MaxCandidates == 7
\* readings of the device that ecg-ingest stores
MaxIngests == 11
\* setTimeout callbacks of useECGData pending at one time
MaxTimeouts == 4
\* samples of the longest of the short windows
MaxShort == 7

\* callTriggerEmergency promises that may be pending at once
MaxInFlight == 2

\* seconds a callTriggerEmergency promise may stay pending where fires are timed
MaxDispatchSeconds == 4

\* values the draw loop may report for stPercent, and positions
StPercents == {NULL, 10, 25, 30}
Locations == {NULL, 1}

VARIABLES
    \* ECGMonitor component state (useState)
    autoTriggerEnabled, stPercent, location, armed, countdown, lastTriggeredAt,
    \* ECGMonitor refs (useRef)
    stSinceRef, armingTimerRef,
    \* React / browser scheduling
    effectPending,   \* a dependency of the auto-trigger effect changed
    timerDue,        \* the arming interval has elapsed and its callback is due
    updaterQueued,   \* the setCountdown updater waits for the next render
    updaterBase,     \* countdown the queued updater will be applied to
    inFlight,        \* pending callTriggerEmergency promises
    intervals,       \* intervals registered by window.setInterval and not cleared
    closure,         \* stPercent and location of the render whose effect registered the interval
    payload,         \* stemi_level and location of the latest payload, while a promise is pending
    \* history variables used by the properties
    sustained,       \* seconds stPercent has stayed >= threshold since the last return to Idle
    episode,         \* fate of the latest arming episode: none, armed, cancelled, dropped, stopped, fired
    sinceFire        \* seconds since the latest escalation fire

arbVars == <<autoTriggerEnabled, stPercent, location, armed, countdown,
             lastTriggeredAt, stSinceRef, armingTimerRef, effectPending,
             timerDue, updaterQueued, updaterBase, inFlight, intervals,
             closure, payload, sustained, episode, sinceFire>>

\* emergency-alert, with the function that called it (trigger-emergency or ecg-ingest)
VARIABLES
    entry,              \* the function that received the request
    pc,                 \* where the request stands
    alertStatus,        \* emergency_alerts.status of this escalation's row ("absent" before the insert)
    contacts,           \* emergency_contacts read: NULL (no data) or the number of rows
    hospitals,          \* hospitals read: NULL (no data) or the number of rows
    nearestHospitals,   \* length of hospitalsWithDistance.slice(0, 5)
    twilioConfigured,   \* TWILIO_ACCOUNT_SID && TWILIO_AUTH_TOKEN && TWILIO_PHONE_NUMBER
    i, j,               \* positions of the hospital loop and of the contact loop
    sending,            \* the awaited Twilio fetch: none, pending, hung
    notifications,      \* alert_notifications rows inserted, in order
    eaResponse,         \* HTTP status emergency-alert answered with (NULL: not yet)
    callerResponse,     \* what the calling function answered its own caller
    \* history variable used by the properties
    attempts            \* per responder: none, pending, hung, sent, delivered, failed, threw, skipped

dispVars == <<entry, pc, alertStatus, contacts, hospitals, nearestHospitals,
              twilioConfigured, i, j, sending, notifications, eaResponse,
              callerResponse, attempts>>

\* emergency-alert with the WhatsApp and EmailJS channels
VARIABLES
    twilioAccount,          \* twilioAccountSid && twilioAuthToken
    twilioPhoneNumber,      \* TWILIO_PHONE_NUMBER is set
    twilioWhatsappNumber,   \* TWILIO_WHATSAPP_NUMBER is set
    emailjsConfigured,      \* emailjsServiceId && emailjsTemplateId && emailjsUserId
    mcHospitals,            \* length of nearestHospitals
    mcContacts,             \* contacts read: NULL (no data) or the number of rows
    mcAt,                   \* idle, hospital, contact, unconfigured, update, returned
    mcId,                   \* position of the loop mcAt names
    mcChannel,              \* "api": the hospital row is next; sms, whatsapp, email: that fetch is awaited
    mcRows,                 \* alert_notifications rows inserted
    mcStatus,               \* emergency_alerts.status
    mcResponse,             \* HTTP status answered (NULL: not yet)
    \* history variable used by the properties
    mcStarted               \* <<recipient_type, recipient_id, method>> of every fetch started

mcVars == <<twilioAccount, twilioPhoneNumber, twilioWhatsappNumber, emailjsConfigured,
            mcHospitals, mcContacts, mcAt, mcId, mcChannel, mcRows, mcStatus,
            mcResponse, mcStarted>>

\* emergency-alert: the ranking of the hospitals
VARIABLES
    rkTable,        \* rows of the hospitals table, in the order the query returns them
    rkLatitude,     \* latitude of the request
    rkRanked,       \* nearestHospitals of the latest request
    rkPrevious,     \* nearestHospitals of the request before it
    rkCalls,        \* requests handled
    rkResponse      \* 500 when no hospital was found, else NULL

rkVars == <<rkTable, rkLatitude, rkRanked, rkPrevious, rkCalls, rkResponse>>

\* analyze-ecg: the signal analyzer
VARIABLES
    signal,         \* the window of the request
    sampling_rate,  \* Hz
    onnxUrl,        \* ONNX_SERVICE_URL is set
    hfConfigured,   \* hfKey && hfModel
    sgAt,           \* idle, onnx (that fetch is awaited), hf (that fetch is awaited), returned
    patterns,       \* the patterns array
    risk_level,     \* low, medium, high
    heuristic,      \* patterns and risk_level before any classifier was asked
    source,         \* _source of the result returned
    sgResponse,     \* HTTP status answered (NULL: not yet)
    details,        \* bpm, sdnn and peaks of the result returned
    onnxRes,        \* how the ONNX fetch ended: none, ok, failed
    hfRes,          \* how the Hugging Face fetch ended: none, ok, not_ok, threw
    hfData          \* the body of an ok Hugging Face answer (_hf_raw)

sgVars == <<signal, sampling_rate, onnxUrl, hfConfigured, sgAt, patterns, risk_level,
            heuristic, source, sgResponse, details, onnxRes, hfRes, hfData>>

\* ecg-ingest: the readings one device posts
VARIABLES
    igReadings,     \* reading_value of the newest ecg_readings rows of the device, newest first
    igAlerts,       \* emergency_alerts rows the function has inserted
    igDispatched,   \* calls of emergency-alert the function has made
    igSinceAlert,   \* seconds since the latest of those inserts (NULL: none yet)
    igResponse      \* HTTP status of the latest request (NULL: none yet)

igVars == <<igReadings, igAlerts, igDispatched, igSinceAlert, igResponse>>

\* useECGData: the connection status of the realtime channel
VARIABLES
    subscribed,     \* the effect has subscribed the channel and not removed it
    isConnected,    \* the isConnected state of the hook
    timeouts,       \* seconds left on each pending setTimeout, oldest first
    sinceReading    \* seconds since the latest reading arrived (NULL: none yet)

cnVars == <<subscribed, isConnected, timeouts, sinceReading>>

\* what the handlers of one component leave alone
otherThanArb == <<dispVars, mcVars, rkVars, sgVars, igVars, cnVars>>
otherThanDisp == <<arbVars, mcVars, rkVars, sgVars, igVars, cnVars>>
otherThanMc == <<arbVars, dispVars, rkVars, sgVars, igVars, cnVars>>
otherThanRk == <<arbVars, dispVars, mcVars, sgVars, igVars, cnVars>>
otherThanSg == <<arbVars, dispVars, mcVars, rkVars, igVars, cnVars>>
otherThanIg == <<arbVars, dispVars, mcVars, rkVars, sgVars, cnVars>>
otherThanCn == <<arbVars, dispVars, mcVars, rkVars, sgVars, igVars>>

vars == <<arbVars, dispVars, mcVars, rkVars, sgVars, igVars, cnVars>>

\* ---- helpers -----------------------------------------------------------
Min(a, b) == IF a < b THEN a ELSE b

\* one more second on a stored elapsed time, saturating at cap
Older(t, cap) == IF t = NULL THEN NULL ELSE Min(t + 1, cap)

\* stPercent !== null && stPercent >= TRIGGER_THRESHOLD
AboveThreshold(p) == p # NULL /\ p >= TRIGGER_THRESHOLD

\* lastTriggeredAt && now - lastTriggeredAt < RATE_LIMIT_MS
Cooling == lastTriggeredAt # NULL /\ lastTriggeredAt < RateLimitTicks

\* restart of the sustain measurement at a return to Idle
Fresh(p) == IF AboveThreshold(p) THEN 0 ELSE NULL

\* no render is captured, no payload is under way
Nothing == [stPercent |-> NULL, location |-> NULL]

ArbInit ==
    /\ autoTriggerEnabled = FALSE
    /\ stPercent = NULL
    /\ location = NULL
    /\ armed = FALSE
    /\ countdown = NULL
    /\ lastTriggeredAt = NULL
    /\ stSinceRef = NULL
    /\ armingTimerRef = FALSE
    /\ effectPending = TRUE
    /\ timerDue = FALSE
    /\ updaterQueued = FALSE
    /\ updaterBase = NULL
    /\ inFlight = 0
    /\ intervals = 0
    /\ closure = Nothing
    /\ payload = Nothing
    /\ sustained = NULL
    /\ episode = "none"
    /\ sinceFire = NULL

\* ---- inputs ------------------------------------------------------------
\* draw loop: setStPercent(percent); React bails out when the value is the same
SetStPercent(p) ==
    /\ ~effectPending
    /\ ~updaterQueued
    /\ stPercent' = p
    /\ effectPending' = (p # stPercent)
    /\ sustained' = IF ~AboveThreshold(p) THEN NULL
                    ELSE IF AboveThreshold(stPercent) THEN sustained ELSE 0
    /\ UNCHANGED otherThanArb
    /\ UNCHANGED <<updaterQueued, updaterBase>>
    /\ UNCHANGED <<autoTriggerEnabled, location, armed, countdown, lastTriggeredAt,
                   stSinceRef, armingTimerRef, intervals, closure, timerDue, inFlight, payload, episode, sinceFire>>

\* useLocation: setLocation(...)
SetLocation(l) ==
    /\ ~effectPending
    /\ ~updaterQueued
    /\ l # location
    /\ location' = l
    /\ effectPending' = TRUE
    /\ UNCHANGED otherThanArb
    /\ UNCHANGED <<updaterQueued, updaterBase>>
    /\ UNCHANGED <<autoTriggerEnabled, stPercent, armed, countdown, lastTriggeredAt,
                   stSinceRef, armingTimerRef, intervals, closure, timerDue, inFlight, payload, sustained,
                   episode, sinceFire>>

\* canEnableAutoTrigger
canEnableAutoTrigger ==
    \/ location = NULL
    \/ lastTriggeredAt = NULL
    \/ lastTriggeredAt > RateLimitTicks

\* toggle button: setAutoTriggerEnabled((v) => !v), disabled={!canEnableAutoTrigger()}
ToggleAutoTrigger ==
    /\ ~effectPending
    /\ ~updaterQueued
    /\ canEnableAutoTrigger
    /\ autoTriggerEnabled' = ~autoTriggerEnabled
    /\ effectPending' = TRUE
    /\ sustained' = Fresh(stPercent)
    /\ UNCHANGED otherThanArb
    /\ UNCHANGED <<updaterQueued, updaterBase>>
    /\ UNCHANGED <<stPercent, location, armed, countdown, lastTriggeredAt,
                   stSinceRef, armingTimerRef, intervals, closure, timerDue, inFlight, payload, episode, sinceFire>>

\* ---- the auto-trigger effect ------------------------------------------
\* the closure once its interval is cleared: it lives on only in an updater
\* that still waits in the queue
Released == IF updaterQueued THEN closure ELSE Nothing

\* clearInterval + setCountdown(null) + setArmed(false), done only when a timer is registered
ResetArming ==
    /\ stSinceRef' = NULL
    /\ IF armingTimerRef
       THEN /\ armingTimerRef' = FALSE
            /\ intervals' = intervals - 1
            /\ closure' = Released
            /\ timerDue' = FALSE
            /\ countdown' = NULL
            /\ armed' = FALSE
       ELSE UNCHANGED <<armingTimerRef, intervals, closure, timerDue, countdown, armed>>

\* an arming branch whose guard asks for the sustain window alone
SustainOrArm_Unguarded ==
    LET since == IF stSinceRef = NULL THEN 0 ELSE stSinceRef
    IN  /\ stSinceRef' = since
        /\ IF since >= SUSTAIN_SECONDS
           THEN /\ armed' = TRUE
                /\ countdown' = ARM_COUNTDOWN
                /\ armingTimerRef' = TRUE
                /\ intervals' = intervals + 1
                /\ closure' = [stPercent |-> stPercent, location |-> location]
                /\ timerDue' = FALSE
           ELSE UNCHANGED <<armed, countdown, armingTimerRef, intervals, closure, timerDue>>

\* the branch taken while stPercent >= TRIGGER_THRESHOLD
SustainOrArm ==
    LET since == IF stSinceRef = NULL THEN 0 ELSE stSinceRef
    IN  /\ stSinceRef' = since
        /\ IF since >= SUSTAIN_SECONDS /\ ~armed /\ (countdown = NULL \/ countdown = 0)
           THEN /\ armed' = TRUE
                /\ countdown' = ARM_COUNTDOWN
                /\ armingTimerRef' = TRUE
                /\ intervals' = intervals + 1
                /\ closure' = [stPercent |-> stPercent, location |-> location]
                /\ timerDue' = FALSE
           ELSE UNCHANGED <<armed, countdown, armingTimerRef, intervals, closure, timerDue>>

RunEffect ==
    /\ effectPending
    /\ IF ~autoTriggerEnabled THEN ResetArming
       ELSE IF Cooling
            THEN UNCHANGED <<stSinceRef, armingTimerRef, intervals, closure, timerDue, countdown, armed>>
       ELSE IF AboveThreshold(stPercent) THEN SustainOrArm
       ELSE ResetArming
    /\ effectPending' = (armed' # armed \/ countdown' # countdown)
    /\ episode' = IF armed' /\ ~armed THEN "armed"
                   ELSE IF armed /\ ~autoTriggerEnabled THEN "stopped"
                   ELSE IF armed /\ ~AboveThreshold(stPercent) THEN "dropped"
                   ELSE episode
    /\ UNCHANGED otherThanArb
    /\ UNCHANGED <<updaterQueued, updaterBase>>
    /\ UNCHANGED <<autoTriggerEnabled, stPercent, location, lastTriggeredAt,
                   inFlight, payload, sustained, sinceFire>>

\* ---- the countdown interval callback ----------------------------------
\* the updater (c) => {...} applied to c: at c <= 1 it clears the interval,
\* resets countdown and armed and calls callTriggerEmergency with a payload
\* built from the stPercent and location of its closure; else it returns
\* c - 1, which updates queued after it (setCountdown(null)) replace
\* the closure once its updater has run without firing: kept while its
\* interval is registered
Kept == IF armingTimerRef THEN closure ELSE Nothing

CountdownUpdater(c) ==
    /\ IF c = NULL
       THEN /\ closure' = Kept
            /\ UNCHANGED <<countdown, armed, armingTimerRef, intervals, inFlight, payload,
                           sustained, episode>>
       ELSE IF c <= 1
       THEN /\ inFlight < MaxInFlight
            /\ armingTimerRef' = FALSE
            /\ intervals' = IF armingTimerRef THEN intervals - 1 ELSE intervals
            /\ countdown' = NULL
            /\ armed' = FALSE
            /\ inFlight' = inFlight + 1
            /\ payload' = closure
            /\ closure' = Nothing
            /\ sustained' = Fresh(stPercent)
            /\ episode' = "fired"
       ELSE /\ countdown' = IF countdown = c THEN c - 1 ELSE countdown
            /\ closure' = Kept
            /\ UNCHANGED <<armed, armingTimerRef, intervals, inFlight, payload, sustained,
                           episode>>
    /\ timerDue' = FALSE
    /\ effectPending' = (effectPending \/ armed' # armed \/ countdown' # countdown)
    /\ UNCHANGED otherThanArb
    /\ UNCHANGED <<autoTriggerEnabled, stPercent, location, lastTriggeredAt, stSinceRef>>

\* the interval callback, its updater computed eagerly
TickCore ==
    /\ armingTimerRef
    /\ timerDue
    /\ ~updaterQueued
    /\ CountdownUpdater(countdown)
    /\ UNCHANGED <<updaterQueued, updaterBase>>

Tick == TickCore /\ UNCHANGED sinceFire

\* the same callback, with the time of the fire recorded
TickTimed == TickCore /\ sinceFire' = IF inFlight' = inFlight + 1 THEN 0 ELSE sinceFire

\* the interval callback, its updater left in the queue for the next render
TickQueued ==
    /\ armingTimerRef
    /\ timerDue
    /\ ~updaterQueued
    /\ updaterQueued' = TRUE
    /\ updaterBase' = countdown
    /\ timerDue' = FALSE
    /\ UNCHANGED otherThanArb
    /\ UNCHANGED <<autoTriggerEnabled, stPercent, location, armed, countdown,
                   lastTriggeredAt, stSinceRef, armingTimerRef, intervals, closure, effectPending,
                   inFlight, payload, sustained, episode, sinceFire>>

\* the next render applies the queued updater
RenderCore ==
    /\ updaterQueued
    /\ CountdownUpdater(updaterBase)
    /\ updaterQueued' = FALSE
    /\ updaterBase' = NULL

Render == RenderCore /\ UNCHANGED sinceFire

RenderTimed == RenderCore /\ sinceFire' = IF inFlight' = inFlight + 1 THEN 0 ELSE sinceFire

\* ---- Cancel button ---------------------------------------------------
\* a cancel that leaves the countdown where it stood
cancelArming_KeepsCountdown ==
    /\ armed
    /\ stSinceRef' = NULL
    /\ armingTimerRef' = FALSE
    /\ intervals' = IF armingTimerRef THEN intervals - 1 ELSE intervals
    /\ closure' = Released
    /\ timerDue' = FALSE
    /\ armed' = FALSE
    /\ effectPending' = TRUE
    /\ episode' = "cancelled"
    /\ sustained' = Fresh(stPercent)
    /\ UNCHANGED otherThanArb
    /\ UNCHANGED <<updaterQueued, updaterBase>>
    /\ UNCHANGED <<autoTriggerEnabled, stPercent, location, lastTriggeredAt,
                   inFlight, payload, sinceFire, countdown>>

cancelArming ==
    /\ armed
    /\ stSinceRef' = NULL
    /\ armingTimerRef' = FALSE
    /\ intervals' = IF armingTimerRef THEN intervals - 1 ELSE intervals
    /\ closure' = Released
    /\ timerDue' = FALSE
    /\ countdown' = NULL
    /\ armed' = FALSE
    /\ effectPending' = TRUE
    /\ episode' = "cancelled"
    /\ sustained' = Fresh(stPercent)
    /\ UNCHANGED otherThanArb
    /\ UNCHANGED <<updaterQueued, updaterBase>>
    /\ UNCHANGED <<autoTriggerEnabled, stPercent, location, lastTriggeredAt,
                   inFlight, payload, sinceFire>>

\* ---- continuation of the async fire ----------------------------------
\* await callTriggerEmergency(payload) resolves: setLastTriggeredAt(Date.now())
FireResolved ==
    /\ inFlight > 0
    /\ inFlight' = inFlight - 1
    /\ payload' = IF inFlight = 1 THEN Nothing ELSE payload
    /\ lastTriggeredAt' = 0
    /\ effectPending' = TRUE
    /\ UNCHANGED otherThanArb
    /\ UNCHANGED <<updaterQueued, updaterBase>>
    /\ UNCHANGED <<autoTriggerEnabled, stPercent, location, armed, countdown,
                   stSinceRef, armingTimerRef, intervals, closure, timerDue, sustained, episode, sinceFire>>

\* await callTriggerEmergency(payload) rejects: the catch only reports it
FireRejected ==
    /\ inFlight > 0
    /\ inFlight' = inFlight - 1
    /\ payload' = IF inFlight = 1 THEN Nothing ELSE payload
    /\ UNCHANGED otherThanArb
    /\ UNCHANGED <<updaterQueued, updaterBase>>
    /\ UNCHANGED <<autoTriggerEnabled, stPercent, location, armed, countdown,
                   lastTriggeredAt, stSinceRef, armingTimerRef, intervals, closure, timerDue,
                   effectPending, sustained, episode, sinceFire>>

\* ---- one second passes --------------------------------------------------
AdvanceCore ==
    /\ ~effectPending
    /\ ~timerDue
    /\ ~updaterQueued
    /\ stSinceRef' = Older(stSinceRef, SUSTAIN_SECONDS)
    /\ lastTriggeredAt' = Older(lastTriggeredAt, RateLimitTicks + 1)
    /\ timerDue' = armingTimerRef
    /\ sustained' = IF Cooling /\ lastTriggeredAt + 1 >= RateLimitTicks
                    THEN Fresh(stPercent)
                    ELSE Older(sustained, SUSTAIN_SECONDS + 1)
    /\ UNCHANGED otherThanArb
    /\ UNCHANGED <<updaterQueued, updaterBase>>
    /\ UNCHANGED <<autoTriggerEnabled, stPercent, location, armed, countdown,
                   armingTimerRef, intervals, closure, effectPending, inFlight, payload, episode>>

Advance == AdvanceCore /\ UNCHANGED sinceFire

\* the same second, with the time since the latest fire kept; a pending
\* callTriggerEmergency settles within MaxDispatchSeconds of that fire
AdvanceTimed ==
    /\ inFlight > 0 => sinceFire < MaxDispatchSeconds
    /\ AdvanceCore
    /\ sinceFire' = Older(sinceFire, RateLimitTicks)

\* ---- emergency-alert and its callers ------------------------------------
HospitalIds == 1..MaxHospitals
ContactIds == 1..MaxContacts
Responders == ({"hospital"} \X HospitalIds) \cup ({"contact"} \X ContactIds)

\* a Response: its status, and whether the body carries success: true, the
\* alert id, and the counts hospitals_notified / contacts_notified
NoResponse == [status |-> NULL, success |-> FALSE, alert_id |-> FALSE, counts |-> FALSE]

DispInit ==
    /\ entry = "none"
    /\ pc = "idle"
    /\ alertStatus = "absent"
    /\ contacts = NULL
    /\ hospitals = NULL
    /\ nearestHospitals = 0
    /\ twilioConfigured = FALSE
    /\ i = 1
    /\ j = 1
    /\ sending = "none"
    /\ notifications = << >>
    /\ eaResponse = NULL
    /\ callerResponse = NoResponse
    /\ attempts = [r \in Responders |-> "none"]

\* a row of alert_notifications
Row(type, id, method, status) ==
    [recipient_type |-> type, recipient_id |-> id,
     notification_method |-> method, status |-> status]

\* trigger-emergency: insert the alert; an insert error answers 500
TriggerEmergency(insertOk) ==
    /\ pc = "idle"
    /\ entry' = "trigger-emergency"
    /\ IF insertOk
       THEN /\ alertStatus' = "triggered"
            /\ pc' = "ea_fetch"
            /\ UNCHANGED callerResponse
       ELSE /\ callerResponse' = [status |-> 500, success |-> FALSE, alert_id |-> FALSE,
                                 counts |-> FALSE]
            /\ pc' = "done"
            /\ UNCHANGED alertStatus
    /\ UNCHANGED <<contacts, hospitals, nearestHospitals, twilioConfigured, i, j,
                   sending, notifications, eaResponse, attempts>>
    /\ UNCHANGED otherThanDisp

\* ecg-ingest with ST elevation detected: insert the alert; emergency-alert is
\* called only if (!alertError && alert); the reading's 200 is answered either way
EcgIngest(insertOk) ==
    /\ pc = "idle"
    /\ entry' = "ecg-ingest"
    /\ IF insertOk
       THEN /\ alertStatus' = "triggered"
            /\ pc' = "ea_fetch"
            /\ UNCHANGED callerResponse
       ELSE /\ callerResponse' = [status |-> 200, success |-> TRUE, alert_id |-> FALSE,
                                 counts |-> FALSE]
            /\ pc' = "done"
            /\ UNCHANGED alertStatus
    /\ UNCHANGED <<contacts, hospitals, nearestHospitals, twilioConfigured, i, j,
                   sending, notifications, eaResponse, attempts>>
    /\ UNCHANGED otherThanDisp

\* where the handler goes once the hospital loop is over
AfterHospitals(tw, c) ==
    IF tw /\ c # NULL /\ c > 0 THEN "ea_sms"
    ELSE IF c # NULL /\ c > 0 THEN "ea_unconfigured"
    ELSE "ea_update"

\* emergency-alert: read the contacts and the hospitals; no hospital answers 500
FetchResponders(c, h, tw) ==
    /\ pc = "ea_fetch"
    /\ contacts' = c
    /\ hospitals' = h
    /\ twilioConfigured' = tw
    /\ IF h = NULL \/ h = 0
       THEN /\ eaResponse' = 500
            /\ pc' = "ea_returned"
            /\ UNCHANGED nearestHospitals
       ELSE /\ nearestHospitals' = Min(h, NEAREST_COUNT)
            /\ pc' = "ea_hospitals"
            /\ UNCHANGED eaResponse
    /\ UNCHANGED <<entry, alertStatus, i, j, sending, notifications, callerResponse,
                   attempts>>
    /\ UNCHANGED otherThanDisp

\* hospital loop body: insert the "api"/"sent" row for nearestHospitals[i]
NotifyHospital ==
    /\ pc = "ea_hospitals"
    /\ notifications' = Append(notifications, Row("hospital", i, "api", "sent"))
    /\ attempts' = [attempts EXCEPT ![<<"hospital", i>>] = "sent"]
    /\ i' = i + 1
    /\ pc' = IF i = nearestHospitals THEN AfterHospitals(twilioConfigured, contacts)
             ELSE "ea_hospitals"
    /\ UNCHANGED <<entry, alertStatus, contacts, hospitals, nearestHospitals,
                   twilioConfigured, j, sending, eaResponse, callerResponse>>
    /\ UNCHANGED otherThanDisp

\* a contact send that is started and not waited for
StartSms_NoAwait ==
    /\ pc = "ea_sms"
    /\ sending = "none"
    /\ attempts' = [attempts EXCEPT ![<<"contact", j>>] = "pending"]
    /\ j' = j + 1
    /\ pc' = IF j = contacts THEN "ea_update" ELSE "ea_sms"
    /\ UNCHANGED <<entry, alertStatus, contacts, hospitals, nearestHospitals,
                   twilioConfigured, i, sending, notifications, eaResponse,
                   callerResponse>>
    /\ UNCHANGED otherThanDisp

\* contact loop body, Twilio configured: await fetch(twilioUrl, ...) for contacts[j]
StartSms ==
    /\ pc = "ea_sms"
    /\ sending = "none"
    /\ sending' = "pending"
    /\ attempts' = [attempts EXCEPT ![<<"contact", j>>] = "pending"]
    /\ UNCHANGED <<entry, pc, alertStatus, contacts, hospitals, nearestHospitals,
                   twilioConfigured, i, j, notifications, eaResponse, callerResponse>>
    /\ UNCHANGED otherThanDisp

\* the fetch answers: the row is inserted with status delivered or failed
SmsResponds(ok) ==
    /\ pc = "ea_sms"
    /\ sending = "pending"
    /\ sending' = "none"
    /\ notifications' = Append(notifications,
           Row("contact", j, "sms", IF ok THEN "delivered" ELSE "failed"))
    /\ attempts' = [attempts EXCEPT ![<<"contact", j>>] = IF ok THEN "delivered" ELSE "failed"]
    /\ j' = j + 1
    /\ pc' = IF j = contacts THEN "ea_update" ELSE "ea_sms"
    /\ UNCHANGED <<entry, alertStatus, contacts, hospitals, nearestHospitals,
                   twilioConfigured, i, eaResponse, callerResponse>>
    /\ UNCHANGED otherThanDisp

\* the fetch (or response.json()) throws: catch (smsError) logs and the loop goes on
SmsThrows ==
    /\ pc = "ea_sms"
    /\ sending = "pending"
    /\ sending' = "none"
    /\ attempts' = [attempts EXCEPT ![<<"contact", j>>] = "threw"]
    /\ j' = j + 1
    /\ pc' = IF j = contacts THEN "ea_update" ELSE "ea_sms"
    /\ UNCHANGED <<entry, alertStatus, contacts, hospitals, nearestHospitals,
                   twilioConfigured, i, notifications, eaResponse, callerResponse>>
    /\ UNCHANGED otherThanDisp

\* the provider never answers: fetch has no timeout, the await never returns
SmsHangs ==
    /\ pc = "ea_sms"
    /\ sending = "pending"
    /\ sending' = "hung"
    /\ attempts' = [attempts EXCEPT ![<<"contact", j>>] = "hung"]
    /\ UNCHANGED <<entry, pc, alertStatus, contacts, hospitals, nearestHospitals,
                   twilioConfigured, i, j, notifications, eaResponse, callerResponse>>
    /\ UNCHANGED otherThanDisp

\* else branch, Twilio not configured: a "pending_config" row for contacts[j]
RecordUnconfigured ==
    /\ pc = "ea_unconfigured"
    /\ notifications' = Append(notifications, Row("contact", j, "sms", "pending_config"))
    /\ attempts' = [attempts EXCEPT ![<<"contact", j>>] = "skipped"]
    /\ j' = j + 1
    /\ pc' = IF j = contacts THEN "ea_update" ELSE "ea_unconfigured"
    /\ UNCHANGED <<entry, alertStatus, contacts, hospitals, nearestHospitals,
                   twilioConfigured, i, sending, eaResponse, callerResponse>>
    /\ UNCHANGED otherThanDisp

\* update({ status: "notified" }) and the 200 summary
UpdateStatus ==
    /\ pc = "ea_update"
    /\ alertStatus' = "notified"
    /\ eaResponse' = 200
    /\ pc' = "ea_returned"
    /\ UNCHANGED <<entry, contacts, hospitals, nearestHospitals, twilioConfigured,
                   i, j, sending, notifications, callerResponse, attempts>>
    /\ UNCHANGED otherThanDisp

\* the calling function answers: { success: true, alert_id, ...alertResult } / the reading's 200
CallerReturns ==
    /\ pc = "ea_returned"
    /\ callerResponse' =
           IF entry = "trigger-emergency"
           THEN [status |-> 200, success |-> TRUE, alert_id |-> TRUE,
                 counts |-> (eaResponse = 200)]
           ELSE [status |-> 200, success |-> TRUE, alert_id |-> FALSE, counts |-> FALSE]
    /\ pc' = "done"
    /\ UNCHANGED <<entry, alertStatus, contacts, hospitals, nearestHospitals,
                   twilioConfigured, i, j, sending, notifications, eaResponse, attempts>>
    /\ UNCHANGED otherThanDisp

\* the fetch of emergency-alert throws (the function cannot be reached): the
\* caller's catch answers 500 { error }
DownstreamThrows ==
    /\ pc = "ea_fetch"
    /\ callerResponse' = [status |-> 500, success |-> FALSE, alert_id |-> FALSE,
                          counts |-> FALSE]
    /\ pc' = "done"
    /\ UNCHANGED <<entry, alertStatus, contacts, hospitals, nearestHospitals,
                   twilioConfigured, i, j, sending, notifications, eaResponse, attempts>>
    /\ UNCHANGED otherThanDisp

\* AlertStatus component: resolveAlert(alertId) on an alert shown as active;
\* an update error only shows a toast
resolveAlert(ok) ==
    /\ alertStatus \in {"triggered", "notified"}
    /\ alertStatus' = IF ok THEN "resolved" ELSE alertStatus
    /\ UNCHANGED <<entry, pc, contacts, hospitals, nearestHospitals, twilioConfigured,
                   i, j, sending, notifications, eaResponse, callerResponse, attempts>>
    /\ UNCHANGED otherThanDisp

DispNext ==
    \/ \E ok \in BOOLEAN : TriggerEmergency(ok)
    \/ \E ok \in BOOLEAN : EcgIngest(ok)
    \/ \E c \in {NULL} \cup (0..MaxContacts), h \in {NULL} \cup (0..MaxHospitals),
          tw \in BOOLEAN : FetchResponders(c, h, tw)
    \/ NotifyHospital
    \/ StartSms
    \/ \E ok \in BOOLEAN : SmsResponds(ok)
    \/ SmsThrows
    \/ SmsHangs
    \/ RecordUnconfigured
    \/ UpdateStatus
    \/ CallerReturns
    \/ DownstreamThrows
    \/ \E ok \in BOOLEAN : resolveAlert(ok)

\* ---- emergency-alert with WhatsApp and EmailJS (part_014) ----------------
\* the consts of lines 202-205 (emailjsServiceId, emailjsTemplateId,
\* emailjsUserId, twilioWhatsappNumber) are initialized once the hospital loop
\* is over; reading one before that throws a ReferenceError
Declared == mcAt # "hospital"

McInit ==
    /\ twilioAccount = FALSE
    /\ twilioPhoneNumber = FALSE
    /\ twilioWhatsappNumber = FALSE
    /\ emailjsConfigured = FALSE
    /\ mcHospitals = 0
    /\ mcContacts = NULL
    /\ mcAt = "idle"
    /\ mcId = 0
    /\ mcChannel = "none"
    /\ mcRows = {}
    /\ mcStatus = "triggered"
    /\ mcResponse = NULL
    /\ mcStarted = {}

\* if (emailjsServiceId && emailjsTemplateId && emailjsUserId && hospital.email)
HospitalEmail ==
    IF ~Declared THEN "caught"
    ELSE IF emailjsConfigured THEN "email" ELSE "none"

\* if (twilioAccountSid && twilioAuthToken && twilioWhatsappNumber && hospital.phone_number),
\* evaluated left to right
HospitalWhatsApp ==
    IF twilioAccount
    THEN IF ~Declared THEN "caught"
         ELSE IF twilioWhatsappNumber THEN "whatsapp" ELSE HospitalEmail
    ELSE HospitalEmail

\* if (emailjsServiceId && emailjsTemplateId && emailjsUserId && contact.email)
ContactEmail == IF emailjsConfigured THEN "email" ELSE "none"

\* if (twilioWhatsappNumber && contact.phone_number)
ContactWhatsApp == IF twilioWhatsappNumber THEN "whatsapp" ELSE ContactEmail

\* the channel tried once channel ch of a recipient has answered
NextChannel(type, ch) ==
    IF type = "hospital"
    THEN IF ch = "api" THEN HospitalWhatsApp
         ELSE IF ch = "whatsapp" THEN HospitalEmail
         ELSE "none"
    ELSE IF ch = "sms" THEN ContactWhatsApp
         ELSE IF ch = "whatsapp" THEN ContactEmail
         ELSE "none"

\* the channel tried once the fetch of channel ch has thrown: the hospital's
\* catch (notifyErr) and the contact's catch (smsError) leave the recipient,
\* catch (waErr) goes on to the email
CaughtChannel(type, ch) ==
    IF type = "contact" /\ ch = "whatsapp" THEN ContactEmail ELSE "none"

\* if ((twilioAccountSid && twilioAuthToken && twilioPhoneNumber) && contacts && contacts.length > 0)
ContactsEntry ==
    IF mcContacts = NULL \/ mcContacts = 0 THEN <<"update", 0, "none">>
    ELSE IF twilioAccount /\ twilioPhoneNumber THEN <<"contact", 1, "sms">>
    ELSE <<"unconfigured", 1, "none">>

\* where the handler stands once recipient (type, id) goes on with channel ch
Step(type, id, ch) ==
    IF ch \notin {"none", "caught"} THEN <<type, id, ch>>
    ELSE IF type = "hospital"
    THEN IF id < mcHospitals THEN <<"hospital", id + 1, "api">> ELSE ContactsEntry
    ELSE IF id < mcContacts THEN <<"contact", id + 1, "sms">>
    ELSE <<"update", 0, "none">>

\* the handler moves to position at; a fetch is started if at names a send
Goto(at) ==
    /\ mcAt' = at[1]
    /\ mcId' = at[2]
    /\ mcChannel' = at[3]
    /\ mcStarted' = IF at[3] \in {"sms", "whatsapp", "email"}
                    THEN mcStarted \cup {at}
                    ELSE mcStarted

\* request received: the reads; no hospital answers 500
MultiChannelAlert(c, h, acct, phone, wa, em) ==
    /\ mcAt = "idle"
    /\ mcContacts' = c
    /\ twilioAccount' = acct
    /\ twilioPhoneNumber' = phone
    /\ twilioWhatsappNumber' = wa
    /\ emailjsConfigured' = em
    /\ IF h = 0
       THEN /\ mcResponse' = 500
            /\ mcAt' = "returned"
            /\ UNCHANGED <<mcHospitals, mcId, mcChannel>>
       ELSE /\ mcHospitals' = Min(h, NEAREST_COUNT)
            /\ mcAt' = "hospital"
            /\ mcId' = 1
            /\ mcChannel' = "api"
            /\ UNCHANGED mcResponse
    /\ UNCHANGED <<mcRows, mcStatus, mcStarted>>
    /\ UNCHANGED otherThanMc

\* hospital loop body: the "api"/"sent" row, then the secondary channels
McNotifyHospital ==
    /\ mcAt = "hospital"
    /\ mcChannel = "api"
    /\ mcRows' = mcRows \cup {Row("hospital", mcId, "api", "sent")}
    /\ Goto(Step("hospital", mcId, NextChannel("hospital", "api")))
    /\ UNCHANGED <<twilioAccount, twilioPhoneNumber, twilioWhatsappNumber,
                   emailjsConfigured, mcHospitals, mcContacts, mcStatus, mcResponse>>
    /\ UNCHANGED otherThanMc

\* status written for an answered fetch: response.ok ? "delivered" : "failed",
\* emailResp.ok ? "sent" : "failed"
SendStatus(ch, ok) ==
    IF ~ok THEN "failed" ELSE IF ch = "email" THEN "sent" ELSE "delivered"

\* the awaited fetch answers: its row is inserted and the next channel tried
McSendResponds(ok) ==
    /\ mcChannel \in {"sms", "whatsapp", "email"}
    /\ mcRows' = mcRows \cup {Row(mcAt, mcId, mcChannel, SendStatus(mcChannel, ok))}
    /\ Goto(Step(mcAt, mcId, NextChannel(mcAt, mcChannel)))
    /\ UNCHANGED <<twilioAccount, twilioPhoneNumber, twilioWhatsappNumber,
                   emailjsConfigured, mcHospitals, mcContacts, mcStatus, mcResponse>>
    /\ UNCHANGED otherThanMc

\* the awaited fetch (or its json()) throws: the enclosing catch logs
McSendThrows ==
    /\ mcChannel \in {"sms", "whatsapp", "email"}
    /\ Goto(Step(mcAt, mcId, CaughtChannel(mcAt, mcChannel)))
    /\ UNCHANGED <<twilioAccount, twilioPhoneNumber, twilioWhatsappNumber,
                   emailjsConfigured, mcHospitals, mcContacts, mcRows, mcStatus,
                   mcResponse>>
    /\ UNCHANGED otherThanMc

\* else branch: a "pending_config" sms row for each contact
McRecordUnconfigured ==
    /\ mcAt = "unconfigured"
    /\ mcRows' = mcRows \cup {Row("contact", mcId, "sms", "pending_config")}
    /\ Goto(IF mcId < mcContacts THEN <<"unconfigured", mcId + 1, "none">>
            ELSE <<"update", 0, "none">>)
    /\ UNCHANGED <<twilioAccount, twilioPhoneNumber, twilioWhatsappNumber,
                   emailjsConfigured, mcHospitals, mcContacts, mcStatus, mcResponse>>
    /\ UNCHANGED otherThanMc

\* update({ status: "notified" }) and the 200 summary
McUpdateStatus ==
    /\ mcAt = "update"
    /\ mcStatus' = "notified"
    /\ mcResponse' = 200
    /\ mcAt' = "returned"
    /\ UNCHANGED <<twilioAccount, twilioPhoneNumber, twilioWhatsappNumber,
                   emailjsConfigured, mcHospitals, mcContacts, mcId, mcChannel,
                   mcRows, mcStarted>>
    /\ UNCHANGED otherThanMc

McNext ==
    \/ \E c \in {NULL} \cup (0..MaxChannelContacts), h \in 0..MaxChannelHospitals,
          acct \in BOOLEAN, phone \in BOOLEAN, wa \in BOOLEAN, em \in BOOLEAN :
          MultiChannelAlert(c, h, acct, phone, wa, em)
    \/ McNotifyHospital
    \/ \E ok \in BOOLEAN : McSendResponds(ok)
    \/ McSendThrows
    \/ McRecordUnconfigured
    \/ McUpdateStatus

\* ---- emergency-alert: ranking of the hospitals ---------------------------
\* latitudes, in degrees, of the hospitals and of the request; every point lies
\* on one meridian (dLon = 0), where the haversine distance is R * |dLat| in
\* radians
Lats == {1, 2}
RequestLats == {1, 2}

\* a row of the hospitals table: with both capabilities at any latitude, or
\* lacking one of them at the first latitude
Facilities ==
    [latitude : Lats, has_ambulance : {TRUE}, is_multi_facility : {TRUE}]
        \cup {[latitude |-> 1, has_ambulance |-> FALSE, is_multi_facility |-> TRUE],
              [latitude |-> 1, has_ambulance |-> TRUE, is_multi_facility |-> FALSE]}

Tables == UNION {[1..n -> Facilities] : n \in 0..MaxCandidates}

Abs(x) == IF x < 0 THEN 0 - x ELSE x

\* Earth's radius in km
R == 6371

\* calculateDistance for two points of one meridian, in whole km (pi as 355/113)
calculateDistance(lat1, lat2) == (R * 355 * Abs(lat2 - lat1)) \div (113 * 180)

\* the table's rows with their position as id
Identified(table) ==
    [k \in DOMAIN table |->
        [id |-> k, latitude |-> table[k].latitude,
         has_ambulance |-> table[k].has_ambulance,
         is_multi_facility |-> table[k].is_multi_facility]]

\* .eq("has_ambulance", true).eq("is_multi_facility", true)
IsEligible(h) == h.has_ambulance /\ h.is_multi_facility

Eligible(table) == SelectSeq(Identified(table), IsEligible)

\* hospitals.map(hospital => ({ ...hospital, distance: calculateDistance(...) }))
WithDistance(hs, lat) ==
    [k \in DOMAIN hs |->
        [id |-> hs[k].id, distance |-> calculateDistance(lat, hs[k].latitude)]]

\* the place the comparator (a, b) => a.distance - b.distance gives the k-th
\* element: behind the nearer ones and, the sort being stable, behind the
\* equally distant ones that precede it in the input
Place(hs, k) ==
    1 + Cardinality({m \in DOMAIN hs :
            \/ hs[m].distance - hs[k].distance < 0
            \/ hs[m].distance - hs[k].distance = 0 /\ m < k})

\* a sequence left in the order the query returned it
SortByDistance_Unsorted(hs) == hs

\* hospitalsWithDistance.sort((a, b) => a.distance - b.distance): Array.prototype.sort is stable
SortByDistance(hs) ==
    [p \in DOMAIN hs |-> hs[CHOOSE k \in DOMAIN hs : Place(hs, k) = p]]

\* slice(0, n)
Slice(hs, n) == SubSeq(hs, 1, Min(Len(hs), n))

NearestHospitals(table, lat) ==
    Slice(SortByDistance(WithDistance(Eligible(table), lat)), NEAREST_COUNT)

RkInit ==
    /\ rkTable = << >>
    /\ rkLatitude = NULL
    /\ rkRanked = << >>
    /\ rkPrevious = << >>
    /\ rkCalls = 0
    /\ rkResponse = NULL

\* a request: the hospitals read, no hospital answers 500, else the ranking
RankHospitals(table, lat) ==
    /\ rkCalls = 0
    /\ rkTable' = table
    /\ rkLatitude' = lat
    /\ rkCalls' = 1
    /\ IF Eligible(table) = << >>
       THEN /\ rkResponse' = 500
            /\ UNCHANGED rkRanked
       ELSE /\ rkRanked' = NearestHospitals(table, lat)
            /\ UNCHANGED rkResponse
    /\ UNCHANGED rkPrevious
    /\ UNCHANGED otherThanRk

\* the same request once more, the table unchanged
RankAgain ==
    /\ rkCalls = 1
    /\ rkResponse = NULL
    /\ rkPrevious' = rkRanked
    /\ rkRanked' = NearestHospitals(rkTable, rkLatitude)
    /\ rkCalls' = 2
    /\ UNCHANGED <<rkTable, rkLatitude, rkResponse>>
    /\ UNCHANGED otherThanRk

RkNext ==
    \/ rkCalls = 0 /\ \E table \in Tables, lat \in RequestLats : RankHospitals(table, lat)
    \/ RankAgain

\* ---- analyze-ecg: the heuristics of the signal analyzer -------------------
\* sample values are whole numbers, on which the sums of the code are exact

Range(s) == {s[k] : k \in DOMAIN s}

Max(a, b) == IF a > b THEN a ELSE b

Includes(arr, p) == \E k \in DOMAIN arr : arr[k] = p

\* arr.push(p) when cond
PushIf(arr, cond, p) == IF cond THEN Append(arr, p) ELSE arr

RECURSIVE SumValues(_, _)
\* the sum of the elements of f whose value is in vs, value by value
SumValues(f, vs) ==
    IF vs = {} THEN 0
    ELSE LET v == CHOOSE x \in vs : TRUE
         IN  v * Cardinality({k \in DOMAIN f : f[k] = v}) + SumValues(f, vs \ {v})

\* arr.reduce((s, d) => s + d, 0)
Sum(f) == SumValues(f, Range(f))

RECURSIVE Gcd(_, _)
Gcd(a, b) == IF b = 0 THEN a ELSE Gcd(b, a % b)

RECURSIVE GcdOf(_)
\* the greatest common divisor of the numbers in vs, 0 for none
GcdOf(vs) ==
    IF vs = {} THEN 0
    ELSE LET v == CHOOSE x \in vs : TRUE
         IN  Gcd(v, GcdOf(vs \ {v}))

\* segment.slice().sort((a, b) => a - b)[h]
SortedAt(s, h) ==
    CHOOSE v \in Range(s) :
        /\ Cardinality({k \in DOMAIN s : s[k] < v}) <= h
        /\ Cardinality({k \in DOMAIN s : s[k] <= v}) > h

RECURSIVE RatioAbove(_, _, _, _)
\* p / q > r / s, for p, r >= 0 and q, s > 0, by the whole parts and then
\* the remainders, so that no product leaves the range of the integers
RatioAbove(p, q, r, s) ==
    IF p \div q # r \div s THEN p \div q > r \div s
    ELSE IF p % q = 0 THEN FALSE
    ELSE IF r % s = 0 THEN TRUE
    ELSE RatioAbove(s, r % s, q, p % q)

\* x > (num / den) * std, where std = Math.sqrt(sumsq / n) || 1 and one unit of
\* the code is `unit` of the model
AboveStd(x, num, den, sumsq, n, unit) ==
    IF sumsq = 0
    THEN x * den > num * unit
    ELSE x > 0 /\ RatioAbove(x * x, sumsq, num * num, den * den * n)

\* f holds at no more than len consecutive indices
HasRun_AtMost(f, len) ==
    ~\E start \in 1..(Len(f) - len) : \A k \in start..(start + len) : f[k]

\* f holds at some len consecutive indices
HasRun(f, len) ==
    \E start \in 1..(Len(f) - len + 1) : \A k \in start..(start + len - 1) : f[k]

MIN_WINDOW == 20

\* Math.max(3, Math.floor(readings.length * 0.2))
SegmentLength(n) == Max(3, n \div 5)

\* a detector that asks only for a rise of more than 15 from the first reading
\* to the last
detectSTElevation_AbsoluteRise(readings) ==
    /\ Len(readings) >= MIN_WINDOW
    /\ readings[Len(readings)] - readings[1] > 15

detectSTElevation(readings) ==
    IF Len(readings) < MIN_WINDOW THEN FALSE
    ELSE
    LET n == Len(readings)
        nBase == SegmentLength(n)
        baseline == SortedAt(SubSeq(readings, 1, nBase), nBase \div 2)
        diffs == [k \in 1..n |-> readings[k] - baseline]
        squares == [k \in 1..n |-> diffs[k] * diffs[k]]
        sumsq == Sum(squares)
        \* d > 1.2 * std
        elevatedStdCount ==
            Cardinality({k \in 1..n : AboveStd(diffs[k], 6, 5, sumsq, n, 1)})
        nTail == SegmentLength(n)
        tailMedian == SortedAt(SubSeq(readings, n - nTail + 1, n), nTail \div 2)
        tailIncrease == tailMedian - baseline
        \* tailIncrease > Math.max(baseline * 0.15, std * 0.4, 15)
        tailFlag ==
            /\ 20 * tailIncrease > 3 * baseline
            /\ AboveStd(tailIncrease, 2, 5, sumsq, n, 1)
            /\ tailIncrease > 15
        \* v > baseline + Math.max(0.1 * baseline, std * 0.4, 10)
        overThreshold ==
            [k \in 1..n |->
                /\ 10 * diffs[k] > baseline
                /\ AboveStd(diffs[k], 2, 5, sumsq, n, 1)
                /\ diffs[k] > 10]
        \* maxContig >= Math.floor(readings.length * 0.25): so many readings
        \* in a row are over the threshold
        contigFlag == HasRun(overThreshold, n \div 4)
    IN  4 * elevatedStdCount > n \/ tailFlag \/ contigFlag

\* the averages are kept in 420ths, the least unit that holds a sum over
\* 1, 2, ... 7 samples exactly
SMOOTH_UNIT == 420
SMOOTH_WINDOW == 7

\* movingAverage(arr, window), in SMOOTH_UNITs
movingAverage(arr, window) ==
    [k \in 1..Len(arr) |->
        LET first == Max(1, k - window + 1)
            sum == Sum([m \in 1..(k - first + 1) |-> arr[first + m - 1]])
        IN  sum * (SMOOTH_UNIT \div Min(window, k))]

RECURSIVE PushPeaks_LongRefractory(_, _, _)
\* peaks with a refractory gap of 1.8 s instead of 0.18 s
PushPeaks_LongRefractory(peaks, candidates, rate) ==
    IF candidates = {} THEN peaks
    ELSE LET m == CHOOSE x \in candidates : \A y \in candidates : x <= y
         IN  PushPeaks_LongRefractory(
                 PushIf(peaks, peaks = << >> \/ 5 * (m - peaks[Len(peaks)]) > 9 * rate, m),
                 candidates \ {m}, rate)

RECURSIVE PushPeaks(_, _, _)
\* peaks once the loop has passed the candidates, in ascending order: one is
\* pushed when it is the first or (i - last) / sampling_rate > 0.18
PushPeaks(peaks, candidates, rate) ==
    IF candidates = {} THEN peaks
    ELSE LET m == CHOOSE x \in candidates : \A y \in candidates : x <= y
         IN  PushPeaks(
                 PushIf(peaks, peaks = << >> \/ 50 * (m - peaks[Len(peaks)]) > 9 * rate, m),
                 candidates \ {m}, rate)

\* smooth[k] - median, for median = sorted smooth[Math.floor(smooth.length / 2)] || 0
Deviations(smooth) ==
    LET median == IF Len(smooth) = 0 THEN 0 ELSE SortedAt(smooth, Len(smooth) \div 2)
    IN  [k \in DOMAIN smooth |-> smooth[k] - median]

\* the deviations divided by their greatest common divisor: smooth[i] > thresh
\* compares a deviation with 0.9 times the root of the mean of the squared
\* deviations, and dividing them all by one number leaves that as it is
Reduced(deviation) ==
    LET divisor == GcdOf({Abs(deviation[k]) : k \in DOMAIN deviation})
    IN  [k \in DOMAIN deviation |-> IF divisor = 0 THEN 0 ELSE deviation[k] \div divisor]

\* smooth[i] > thresh, for thresh = median + sd * 0.9; with every deviation 0
\* sd is 1 and no sample is over it
OverThresh(reduced) ==
    LET sumsq == Sum([k \in DOMAIN reduced |-> reduced[k] * reduced[k]])
    IN  [k \in DOMAIN reduced |->
            AboveStd(reduced[k], 9, 10, sumsq, Len(reduced), SMOOTH_UNIT)]

\* the indices i the loop visits with
\* smooth[i] > thresh && smooth[i] > smooth[i - 1] && smooth[i] >= smooth[i + 1]
Candidates(smooth, over) ==
    {k \in 2..(Len(smooth) - 1) :
        over[k] /\ smooth[k] > smooth[k - 1] /\ smooth[k] >= smooth[k + 1]}

\* peaks, and the RR intervals in samples (rrIntervalsSec times sampling_rate)
Intervals(peaks) ==
    [peaks |-> peaks,
     rrIntervals |-> [q \in 1..(Len(peaks) - 1) |-> peaks[q + 1] - peaks[q]]]

PeaksOf(smooth, rate) ==
    PushPeaks(<< >>, Candidates(smooth, OverThresh(Reduced(Deviations(smooth)))), rate)

detectBeats(sig, rate) == Intervals(PeaksOf(movingAverage(sig, SMOOTH_WINDOW), rate))

\* bpm < limit and bpm > limit, for bpm = 60 / (mean of rrIntervalsSec)
BpmBelow(rr, rate, limit) == 60 * rate * Len(rr) < limit * Sum(rr)
BpmAbove(rr, rate, limit) == 60 * rate * Len(rr) > limit * Sum(rr)

\* cv > 0.2 && sdnn > 0.08, for sdnn the root of the mean squared distance of
\* rrIntervalsSec from their mean, and cv = sdnn / meanRR
Irregular(rr, rate) ==
    LET count == Len(rr)
        total == Sum(rr)
        spread == count * Sum([q \in 1..count |-> rr[q] * rr[q]]) - total * total
    IN  /\ 25 * spread > total * total
        /\ 625 * spread > 4 * rate * rate * count * count

RECURSIVE RootBetween(_, _, _)
\* the greatest whole number between lo and hi whose square is not above x
RootBetween(lo, hi, x) ==
    IF lo = hi THEN lo
    ELSE LET mid == (lo + hi + 1) \div 2
         IN  IF mid * mid <= x THEN RootBetween(mid, hi, x)
                               ELSE RootBetween(lo, mid - 1, x)

\* Math.floor(Math.sqrt(x))
FloorSqrt(x) == RootBetween(0, Min(x, 46340), x)

\* bpm ? Number(bpm.toFixed(1)) : null, in tenths, for
\* bpm = 60 / (mean of rrIntervalsSec)
ReportedBpm(rr, rate) ==
    IF Len(rr) = 0 THEN NULL
    ELSE (1200 * rate * Len(rr) + Sum(rr)) \div (2 * Sum(rr))

\* sdnn ? Number(sdnn.toFixed(3)) : null, in thousandths; equal intervals have
\* sdnn 0, which is reported as null
ReportedSdnn(rr, rate) ==
    LET count == Len(rr)
        total == Sum(rr)
        spread == count * Sum([q \in 1..count |-> rr[q] * rr[q]]) - total * total
    IN  IF count = 0 \/ spread = 0 THEN NULL
        ELSE (FloorSqrt(4000000 * spread) + count * rate) \div (2 * count * rate)

\* details of a result built from the beats alone
ReportedDetails(beats, rate) ==
    [bpm |-> ReportedBpm(beats.rrIntervals, rate),
     sdnn |-> ReportedSdnn(beats.rrIntervals, rate),
     peaks |-> Len(beats.peaks)]

\* the patterns pushed before any classifier is asked
HeuristicPatterns(stElevationDetected, rr, rate) ==
    PushIf(
        PushIf(
            PushIf(
                PushIf(<< >>, stElevationDetected, "st_elevation"),
                Len(rr) > 0 /\ BpmBelow(rr, rate, 50), "bradycardia"),
            Len(rr) > 0 /\ BpmAbove(rr, rate, 100), "tachycardia"),
        Len(rr) >= 5 /\ Irregular(rr, rate), "possible_afib")

\* the default risk scoring
Scored(stElevationDetected, p) ==
    [patterns |-> p,
     risk_level |->
         IF stElevationDetected THEN "high"
         ELSE IF Includes(p, "possible_afib") \/ Includes(p, "tachycardia")
              THEN "medium"
              ELSE "low"]

Classified(stElevationDetected, rr, rate) ==
    Scored(stElevationDetected, HeuristicPatterns(stElevationDetected, rr, rate))

\* the heuristic result with the details of the beats it was scored from
WithDetails(stElevationDetected, beats, rate) ==
    [scored |-> Classified(stElevationDetected, beats.rrIntervals, rate),
     details |-> ReportedDetails(beats, rate),
     peaks |-> beats.peaks]

Composed(h) ==
    [patterns |-> h.scored.patterns, risk_level |-> h.scored.risk_level,
     details |-> h.details, peaks |-> h.peaks]

\* patterns, risk_level, details and peaks of analyzeSignal before any classifier
\* is asked; peaks[q] = i + 1 for the index i the code pushed
Heuristic(sig, rate) ==
    Composed(WithDetails(detectSTElevation(sig), detectBeats(sig, rate), rate))

\* ---- analyze-ecg: the handler ---------------------------------------------
SpikeValues == {0, 1}
ShortWindows == UNION {[1..n -> SpikeValues] : n \in 1..MaxShort}

\* Array(n / 2).fill(b).concat(Array(n - n / 2).fill(2 * b))
StepWindow(n, b) == [k \in 1..n |-> IF k <= n \div 2 THEN b ELSE 2 * b]
StepLens == {200, 201, 400}
Baselines == {0 - 100, 0, 1, 20, 100}
StepWindows == {StepWindow(n, b) : n \in StepLens, b \in Baselines}

\* Array(n).fill(v)
FlatWindow(n, v) == [k \in 1..n |-> v]
FlatLens == {1, 19, 20, 200}
FlatValues == {0 - 100, 0, 1, 1000}
FlatWindows == {FlatWindow(n, v) : n \in FlatLens, v \in FlatValues}

\* new Array(n).fill(0) with signal[i] = a for i = 0, period, 2 * period, ...
SpikeTrain(n, period, a) == [k \in 1..n |-> IF (k - 1) % period = 0 THEN a ELSE 0]
\* length and period: the window of the tests (10 s at 250 Hz, a spike every
\* 0.8 s), and shorter ones
TrainShapes ==
    {<<2500, 200>>, <<400, 100>>, <<150, 46>>, <<101, 50>>, <<100, 33>>, <<100, 16>>,
     <<112, 15>>, <<30, 10>>}
SpikeHeights == {1, 1000}
SpikeTrains == {SpikeTrain(shape[1], shape[2], a) : shape \in TrainShapes, a \in SpikeHeights}

Windows == {<< >>} \cup ShortWindows \cup StepWindows \cup FlatWindows \cup SpikeTrains

SamplingRates == {10, 250}

RiskLevels == {"low", "medium", "high"}

\* probabilities of an ONNX answer, in percent; NULL: the key is absent
Probabilities ==
    [st_elevation : {NULL, 0, 55, 70}, ST_ELEVATION : {NULL, 70},
     afib : {NULL, 50}, tachycardia : {NULL, 60}]

\* a ?? b
Coalesce(a, b) == IF a # NULL THEN a ELSE b

\* the patterns field of a structured Hugging Face answer: absent, or an array
HfPatternFields ==
    {[isArray |-> FALSE, items |-> << >>]}
        \cup {[isArray |-> TRUE, items |-> list] :
                 list \in {<< >>, <<"st_elevation">>, <<"noise", "noise">>}}

\* its risk_level field; "": absent
HfRiskLevels == {""} \cup RiskLevels

\* details of none
NoDetails == [bpm |-> NULL, sdnn |-> NULL, peaks |-> NULL]

\* the details field of an ok answer: absent, { bpm: 85 }, or all three
AnswerDetails ==
    {NoDetails,
     [bpm |-> 850, sdnn |-> NULL, peaks |-> NULL],
     [bpm |-> 850, sdnn |-> 40, peaks |-> 12]}

\* details that keep the figures of the heuristic whatever the answer holds
PreferDetails_Own(answer, own) == own

\* answer.details?.x ?? x, for each of bpm, sdnn and peaks
PreferDetails(answer, own) ==
    [bpm |-> Coalesce(answer.bpm, own.bpm),
     sdnn |-> Coalesce(answer.sdnn, own.sdnn),
     peaks |-> Coalesce(answer.peaks, own.peaks)]

\* no body was read
NoData ==
    [summary |-> FALSE, patterns |-> [isArray |-> FALSE, items |-> << >>],
     risk_level |-> "", details |-> NoDetails]

\* the labels of a text-classification answer
HfLabelLists == {<<"NORMAL">>, <<"ST_ELEVATION">>, <<"tachycardia", "NORMAL">>}

\* l.label.toLowerCase()
toLowerCase(label) ==
    CASE label = "NORMAL" -> "normal"
      [] label = "ST_ELEVATION" -> "st_elevation"
      [] OTHER -> label

RECURSIVE PushAll(_, _)
\* for (const p of list) { if (!patterns.includes(p)) patterns.push(p); }
PushAll(arr, list) ==
    IF list = << >> THEN arr
    ELSE PushAll(PushIf(arr, ~Includes(arr, Head(list)), Head(list)), Tail(list))

SgInit ==
    /\ signal = << >>
    /\ sampling_rate = NULL
    /\ onnxUrl = FALSE
    /\ hfConfigured = FALSE
    /\ sgAt = "idle"
    /\ patterns = << >>
    /\ risk_level = "low"
    /\ heuristic = [patterns |-> << >>, risk_level |-> "low", details |-> NoDetails,
                    peaks |-> << >>]
    /\ source = "none"
    /\ sgResponse = NULL
    /\ details = NoDetails
    /\ onnxRes = "none"
    /\ hfRes = "none"
    /\ hfData = NoData

\* the result is returned with the patterns p, the risk_level r and the
\* details d it was built from
Return(p, r, d, src) ==
    /\ patterns' = p
    /\ risk_level' = r
    /\ details' = d
    /\ source' = src
    /\ sgResponse' = 200
    /\ sgAt' = "returned"

\* past the ONNX branch with the patterns p and the risk_level r: the Hugging
\* Face fetch when it is configured, else the result composed from p and r
PastOnnx(p, r) ==
    IF hfConfigured
    THEN /\ patterns' = p
         /\ risk_level' = r
         /\ sgAt' = "hf"
         /\ UNCHANGED <<source, sgResponse, details>>
    ELSE Return(p, r, heuristic.details, "heuristic")

\* analyzeSignal from the heuristic result h up to the first fetch it awaits
Begin(h, onnx, hf) ==
    /\ heuristic' = h
    /\ IF onnx \/ hf
       THEN /\ patterns' = h.patterns
            /\ risk_level' = h.risk_level
            /\ sgAt' = IF onnx THEN "onnx" ELSE "hf"
            /\ UNCHANGED <<source, sgResponse, details>>
       ELSE Return(h.patterns, h.risk_level, h.details, "heuristic")

\* a request to analyze-ecg: 400 for an empty signal, else analyzeSignal up to
\* the first fetch it awaits
AnalyzeEcg(window, rate, onnx, hf) ==
    /\ sgAt = "idle"
    /\ signal' = window
    /\ sampling_rate' = rate
    /\ onnxUrl' = onnx
    /\ hfConfigured' = hf
    /\ IF Len(window) = 0
       THEN /\ sgResponse' = 400
            /\ sgAt' = "returned"
            /\ UNCHANGED <<patterns, risk_level, heuristic, source, details>>
       ELSE Begin(Heuristic(window, rate), onnx, hf)
    /\ UNCHANGED <<onnxRes, hfRes, hfData>>
    /\ UNCHANGED otherThanSg

\* the ONNX service answers ok with these probabilities and details, with or
\* without a summary
OnnxResponds(probs, summary, d) ==
    /\ sgAt = "onnx"
    /\ LET p1 == PushIf(patterns,
                     /\ Coalesce(probs.st_elevation, Coalesce(probs.ST_ELEVATION, 0)) > 50
                     /\ ~Includes(patterns, "st_elevation"),
                     "st_elevation")
           p2 == PushIf(p1, Coalesce(probs.afib, 0) > 40 /\ ~Includes(p1, "possible_afib"),
                        "possible_afib")
           p3 == PushIf(p2, Coalesce(probs.tachycardia, 0) > 50 /\ ~Includes(p2, "tachycardia"),
                        "tachycardia")
           r  == IF Coalesce(probs.st_elevation, 0) > 60 THEN "high"
                 ELSE IF Coalesce(probs.afib, 0) > 40 THEN "medium"
                 ELSE risk_level
       IN  IF summary THEN Return(p3, r, PreferDetails(d, heuristic.details), "onnx")
                      ELSE PastOnnx(p3, r)
    /\ onnxRes' = "ok"
    /\ UNCHANGED <<signal, sampling_rate, onnxUrl, hfConfigured, heuristic, hfRes, hfData>>
    /\ UNCHANGED otherThanSg

\* the ONNX service answers not ok, or the fetch or its body throws
OnnxFails ==
    /\ sgAt = "onnx"
    /\ PastOnnx(patterns, risk_level)
    /\ onnxRes' = "failed"
    /\ UNCHANGED <<signal, sampling_rate, onnxUrl, hfConfigured, heuristic, hfRes, hfData>>
    /\ UNCHANGED otherThanSg

\* Hugging Face answers ok with an object that has a summary, patterns or a risk_level
HfResponds(summary, hfPatterns, hfRisk, d) ==
    /\ sgAt = "hf"
    /\ summary \/ hfPatterns.isArray \/ hfRisk # ""
    /\ LET p == PushAll(patterns, hfPatterns.items)
           r == IF hfRisk # "" THEN hfRisk ELSE risk_level
       IN  IF summary
           THEN Return(p, r, PreferDetails(d, heuristic.details), "huggingface")
           ELSE Return(p, r, heuristic.details, "heuristic")
    /\ hfRes' = "ok"
    /\ hfData' = [summary |-> summary, patterns |-> hfPatterns, risk_level |-> hfRisk,
                  details |-> d]
    /\ UNCHANGED <<signal, sampling_rate, onnxUrl, hfConfigured, heuristic, onnxRes>>
    /\ UNCHANGED otherThanSg

\* Hugging Face answers ok with an array of labels
HfLabels(labels) ==
    /\ sgAt = "hf"
    /\ LET p == PushAll(patterns, [k \in DOMAIN labels |-> toLowerCase(labels[k])])
           r == IF Includes(p, "st_elevation") THEN "high"
                ELSE IF Includes(p, "possible_afib") \/ Includes(p, "tachycardia")
                     THEN "medium"
                     ELSE risk_level
       IN  Return(p, r, heuristic.details, "heuristic")
    /\ hfRes' = "ok"
    /\ UNCHANGED <<signal, sampling_rate, onnxUrl, hfConfigured, heuristic, onnxRes, hfData>>
    /\ UNCHANGED otherThanSg

\* Hugging Face answers ok with a body of another shape
HfUnrecognised ==
    /\ sgAt = "hf"
    /\ Return(patterns, risk_level, heuristic.details, "heuristic")
    /\ hfRes' = "ok"
    /\ UNCHANGED <<signal, sampling_rate, onnxUrl, hfConfigured, heuristic, onnxRes, hfData>>
    /\ UNCHANGED otherThanSg

\* Hugging Face answers not ok
HfFails ==
    /\ sgAt = "hf"
    /\ Return(patterns, risk_level, heuristic.details, "heuristic")
    /\ hfRes' = "not_ok"
    /\ UNCHANGED <<signal, sampling_rate, onnxUrl, hfConfigured, heuristic, onnxRes, hfData>>
    /\ UNCHANGED otherThanSg

\* the Hugging Face fetch throws and the error reaches the caller, which
\* answers 500
HfThrows_Propagates ==
    /\ sgAt = "hf"
    /\ sgAt' = "returned"
    /\ sgResponse' = 500
    /\ hfRes' = "threw"
    /\ UNCHANGED <<signal, sampling_rate, onnxUrl, hfConfigured, heuristic, onnxRes, hfData,
                   patterns, risk_level, details, source>>
    /\ UNCHANGED otherThanSg

\* the Hugging Face fetch or its body throws
HfThrows ==
    /\ sgAt = "hf"
    /\ Return(patterns, risk_level, heuristic.details, "heuristic")
    /\ hfRes' = "threw"
    /\ UNCHANGED <<signal, sampling_rate, onnxUrl, hfConfigured, heuristic, onnxRes, hfData>>
    /\ UNCHANGED otherThanSg

SgNext ==
    \/ sgAt = "idle" /\ \E window \in Windows, rate \in SamplingRates,
                           onnx \in BOOLEAN, hf \in BOOLEAN :
                           AnalyzeEcg(window, rate, onnx, hf)
    \/ \E probs \in Probabilities, summary \in BOOLEAN, d \in AnswerDetails :
          OnnxResponds(probs, summary, d)
    \/ OnnxFails
    \/ \E summary \in BOOLEAN, hfPatterns \in HfPatternFields, hfRisk \in HfRiskLevels,
          d \in AnswerDetails :
          HfResponds(summary, hfPatterns, hfRisk, d)
    \/ \E labels \in HfLabelLists : HfLabels(labels)
    \/ HfUnrecognised
    \/ HfFails
    \/ HfThrows

\* ---- ecg-ingest: the readings one device posts ------------------------------
\* if (readings.length < 10) return false
MIN_READINGS == 10
\* readings.slice(0, 5)
BASELINE_COUNT == 5
\* .limit(20)
RECENT_LIMIT == 20

ReadingValues == {10, 20}
\* the devices row of the token: none, one with is_active false, one with is_active true
Devices == {"unknown", "inactive", "active"}

\* detectSTElevation of ecg-ingest: more than 30 percent of the readings are
\* over 1.2 times the mean of the first five
detectSTElevationIngest(readings) ==
    IF Len(readings) < MIN_READINGS THEN FALSE
    ELSE LET total == Sum(SubSeq(readings, 1, BASELINE_COUNT))
             \* r > baseline * 1.2, for baseline = total / 5
             elevatedCount ==
                 Cardinality({k \in DOMAIN readings :
                                 5 * BASELINE_COUNT * readings[k] > 6 * total})
         IN  10 * elevatedCount > 3 * Len(readings)

IgInit ==
    /\ igReadings = << >>
    /\ igAlerts = 0
    /\ igDispatched = 0
    /\ igSinceAlert = NULL
    /\ igResponse = NULL

\* one request to ecg-ingest: 401 or 403 for the device, the recent readings
\* read and the detection run on them with the new reading in front, the
\* reading inserted (500 when that fails) and, the detection positive, an
\* emergency_alerts row inserted and emergency-alert called for it
EcgIngestRequest(device, reading_value, readingOk, alertOk, fetchOk) ==
    /\ Len(igReadings) < MaxIngests
    /\ IF device # "active"
       THEN /\ igResponse' = IF device = "unknown" THEN 401 ELSE 403
            /\ UNCHANGED <<igReadings, igAlerts, igDispatched, igSinceAlert>>
       ELSE IF ~readingOk
       THEN /\ igResponse' = 500
            /\ UNCHANGED <<igReadings, igAlerts, igDispatched, igSinceAlert>>
       ELSE LET allReadings == <<reading_value>> \o Slice(igReadings, RECENT_LIMIT)
                stElevationDetected == detectSTElevationIngest(allReadings)
            IN  /\ igReadings' = Slice(<<reading_value>> \o igReadings, RECENT_LIMIT)
                /\ IF stElevationDetected /\ alertOk
                   THEN /\ igAlerts' = igAlerts + 1
                        /\ igSinceAlert' = 0
                        /\ igDispatched' = igDispatched + 1
                        /\ igResponse' = IF fetchOk THEN 200 ELSE 500
                   ELSE /\ igResponse' = 200
                        /\ UNCHANGED <<igAlerts, igDispatched, igSinceAlert>>
    /\ UNCHANGED otherThanIg

\* the time between two requests of the device
IngestGaps == {RateLimitTicks \div 2, RateLimitTicks}

\* time passes after an alert, counted up to the window
IgAdvance(gap) ==
    /\ igSinceAlert # NULL
    /\ igSinceAlert < RateLimitTicks
    /\ igSinceAlert' = Min(igSinceAlert + gap, RateLimitTicks)
    /\ UNCHANGED <<igReadings, igAlerts, igDispatched, igResponse>>
    /\ UNCHANGED otherThanIg

IgNext ==
    \/ \E device \in Devices, reading_value \in ReadingValues,
          readingOk \in BOOLEAN, alertOk \in BOOLEAN, fetchOk \in BOOLEAN :
          EcgIngestRequest(device, reading_value, readingOk, alertOk, fetchOk)
    \/ \E gap \in IngestGaps : IgAdvance(gap)

\* ---- useECGData: the connection status ------------------------------------
\* setTimeout(..., 5000)
CONNECTION_TIMEOUT_MS == 5000
\* the same in seconds, the step of the clock here
ConnectionSeconds == CONNECTION_TIMEOUT_MS \div 1000

CnInit ==
    /\ subscribed = FALSE
    /\ isConnected = FALSE
    /\ timeouts = << >>
    /\ sinceReading = NULL

\* the effect with a userId: the channel is subscribed
Subscribe ==
    /\ ~subscribed
    /\ subscribed' = TRUE
    /\ UNCHANGED <<isConnected, timeouts, sinceReading>>
    /\ UNCHANGED otherThanCn

\* the cleanup of the effect: the channel is removed, the timeouts stay
RemoveChannel ==
    /\ subscribed
    /\ subscribed' = FALSE
    /\ UNCHANGED <<isConnected, timeouts, sinceReading>>
    /\ UNCHANGED otherThanCn

\* the INSERT callback: isConnected is set and one more timeout is started
ReadingArrives ==
    /\ subscribed
    /\ Len(timeouts) < MaxTimeouts
    /\ isConnected' = TRUE
    /\ timeouts' = Append(timeouts, ConnectionSeconds)
    /\ sinceReading' = 0
    /\ UNCHANGED subscribed
    /\ UNCHANGED otherThanCn

\* the callback of the oldest timeout, due now
TimeoutFires ==
    /\ timeouts # << >>
    /\ Head(timeouts) = 0
    /\ isConnected' = FALSE
    /\ timeouts' = Tail(timeouts)
    /\ UNCHANGED <<subscribed, sinceReading>>
    /\ UNCHANGED otherThanCn

\* one second passes; a timeout that is due runs first
SecondPasses ==
    /\ \A k \in DOMAIN timeouts : timeouts[k] > 0
    /\ sinceReading # NULL
    /\ timeouts # << >> \/ sinceReading < ConnectionSeconds
    /\ timeouts' = [k \in DOMAIN timeouts |-> timeouts[k] - 1]
    /\ sinceReading' = Min(sinceReading + 1, ConnectionSeconds)
    /\ UNCHANGED <<subscribed, isConnected>>
    /\ UNCHANGED otherThanCn

CnNext ==
    \/ Subscribe
    \/ RemoveChannel
    \/ ReadingArrives
    \/ TimeoutFires
    \/ SecondPasses

\* ---- specifications -------------------------------------------------------
ArbNext ==
    \/ \E p \in StPercents : SetStPercent(p)
    \/ \E l \in Locations : SetLocation(l)
    \/ ToggleAutoTrigger
    \/ RunEffect
    \/ Tick
    \/ TickQueued
    \/ Render
    \/ cancelArming
    \/ FireResolved
    \/ FireRejected
    \/ Advance

\* the auto-trigger with the time since the latest fire observed
FireGapNext ==
    \/ \E p \in StPercents : SetStPercent(p)
    \/ \E l \in Locations : SetLocation(l)
    \/ ToggleAutoTrigger
    \/ RunEffect
    \/ TickTimed
    \/ TickQueued
    \/ RenderTimed
    \/ cancelArming
    \/ FireResolved
    \/ FireRejected
    \/ AdvanceTimed

Init == ArbInit /\ DispInit /\ McInit /\ RkInit /\ SgInit /\ IgInit /\ CnInit

Spec == Init /\ [][ArbNext]_vars

SpecFireGap == Init /\ [][FireGapNext]_vars

SpecDispatch == Init /\ [][DispNext]_vars

\* a step of the emergency-alert handler itself: the Deno runtime resumes the
\* handler whenever the call it awaits has answered or thrown
DispatcherStep ==
    \/ NotifyHospital
    \/ StartSms
    \/ \E ok \in BOOLEAN : SmsResponds(ok)
    \/ SmsThrows
    \/ RecordUnconfigured
    \/ UpdateStatus

\* the dispatcher with its handler never left waiting while it can go on
SpecDispatchFair == Init /\ [][DispNext]_vars /\ WF_vars(DispatcherStep)

SpecChannels == Init /\ [][McNext]_vars

SpecRanking == Init /\ [][RkNext]_vars

SpecSignal == Init /\ [][SgNext]_vars

SpecIngest == Init /\ [][IgNext]_vars

SpecConnection == Init /\ [][CnNext]_vars

\* ---- steps and states the properties speak about ------------------------
\* the countdown invoked callTriggerEmergency
Fires == inFlight' = inFlight + 1

\* the auto-trigger entered Armed
Arms == ~armed /\ armed'

\* the Cancel click was handled
Cancelled == episode = "cancelled"

Cancels == ~Cancelled /\ Cancelled'

Idle == ~armed /\ countdown = NULL /\ ~armingTimerRef /\ stSinceRef = NULL

Sustaining == ~armed /\ stSinceRef # NULL /\ ~Cooling

\* ---- C1 ------------------------------------------------------------------
\* C1: any two escalation fires are at least the 2 minute rate-limit window
\* apart: a step that fires has no earlier fire within the window.
C1_SingleShotPerCooldown ==
    [][Fires => (sinceFire = NULL \/ sinceFire >= RateLimitTicks)]_vars

\* ---- C2 ------------------------------------------------------------------
\* C2: the auto-trigger arms only when stPercent has stayed at or above the
\* threshold for the whole 5 s sustain window since the last return to Idle.
C2_ArmsOnlyAfterFreshSustain ==
    [][Arms => (sustained # NULL /\ sustained >= SUSTAIN_SECONDS)]_vars

\* ---- C3 ------------------------------------------------------------------
\* C3: enabled, not cooling, stPercent at or above threshold for more than the
\* sustain window and no handler outstanding: the arbiter is Armed.
C3_SustainedFeedArms ==
    (/\ autoTriggerEnabled
     /\ ~Cooling
     /\ sustained # NULL /\ sustained > SUSTAIN_SECONDS
     /\ ~effectPending /\ ~timerDue)
    => armed

\* ---- C4 ------------------------------------------------------------------
\* C4: an stPercent update below threshold (or null) processed while
\* Sustaining or Armed clears the sustain start, cancels the countdown timer,
\* and leaves armed false and countdown null; the episode it ends never fires.
C4_RiskDropIsFullReset ==
    [][/\ (RunEffect /\ ~AboveThreshold(stPercent) /\ (Sustaining \/ armed)) => Idle'
       /\ Fires => episode # "dropped"]_vars

\* ---- C5 ------------------------------------------------------------------
\* C5: handling Cancel while Armed leaves the arbiter Idle, and no fire comes
\* from a cancelled arming episode, wherever the countdown stood.
C5_CancelExcludesFire ==
    [][(Cancels => Idle') /\ (Fires => ~Cancelled)]_vars

\* ---- responders of one dispatch ------------------------------------------
HospitalTargets == {<<"hospital", h>> : h \in 1..nearestHospitals}

ContactTargets == IF contacts = NULL THEN {} ELSE {<<"contact", c>> : c \in 1..contacts}

Targets == HospitalTargets \cup ContactTargets

\* alert_notifications rows written for responder r
RowsFor(r) ==
    Cardinality({k \in DOMAIN notifications :
                    /\ notifications[k].recipient_type = r[1]
                    /\ notifications[k].recipient_id = r[2]})

Resolved == {"sent", "delivered", "failed", "threw", "skipped"}

\* ---- C6 ------------------------------------------------------------------
\* C6: when a dispatch has run to its end, every responder has exactly one
\* alert_notifications row for its channel, whatever the sends did.
C6_OneRowPerAttempt ==
    eaResponse = 200 => \A r \in Targets : RowsFor(r) = 1

\* ---- C7 ------------------------------------------------------------------
\* C7: the alert is notified only once every notification attempt of the
\* dispatch has resolved; none is unstarted or pending from then on.
C7_JoinBeforeFinalize ==
    alertStatus = "notified" =>
        /\ sending = "none"
        /\ \A r \in Targets : attempts[r] \in Resolved

\* notified after one contact's send threw and the other's was refused
C7_Witness ==
    /\ alertStatus = "notified"
    /\ nearestHospitals = NEAREST_COUNT
    /\ contacts = 2
    /\ attempts[<<"contact", 1>>] = "threw"
    /\ attempts[<<"contact", 2>>] = "failed"

\* ---- C8 ------------------------------------------------------------------
\* C8: whatever the responder reads returned, emergency-alert answers only
\* with the summary, after notifying every contact it read and setting the
\* alert to notified.
C8_ReadFailuresDegrade ==
    eaResponse # NULL =>
        /\ eaResponse = 200
        /\ alertStatus = "notified"
        /\ \A r \in ContactTargets : attempts[r] # "none"

\* ---- C9 ------------------------------------------------------------------
\* C9: when the alert row could not be inserted, nothing is fetched, notified
\* or recorded, and the caller is answered with an error.
C9_PersistFailureIsFatal ==
    (pc = "done" /\ alertStatus = "absent") =>
        /\ eaResponse = NULL
        /\ notifications = << >>
        /\ \A r \in Responders : attempts[r] = "none"
        /\ ~callerResponse.success
        /\ callerResponse.status >= 400

\* ---- C10 -----------------------------------------------------------------
\* C10: a send that never returns holds back no other recipient: every other
\* responder's attempt has been started.
C10_PerRecipientIsolation ==
    sending = "hung" => \A r \in Targets : attempts[r] # "none"

\* ---- responders and channels of one multi-channel dispatch ---------------
McTargets ==
    ({"hospital"} \X (1..mcHospitals))
        \cup (IF mcContacts = NULL THEN {} ELSE {"contact"} \X (1..mcContacts))

\* the channels with credentials over which a recipient of a type is notified
CredentialChannels(type) ==
    IF type = "hospital" THEN {"whatsapp", "email"} ELSE {"sms", "whatsapp", "email"}

\* the credentials of channel ch are all present
Configured(ch) ==
    IF ch = "sms" THEN twilioAccount /\ twilioPhoneNumber
    ELSE IF ch = "whatsapp" THEN twilioAccount /\ twilioWhatsappNumber
    ELSE emailjsConfigured

McRowsFor(r, ch) ==
    {row \in mcRows : /\ row.recipient_type = r[1]
                      /\ row.recipient_id = r[2]
                      /\ row.notification_method = ch}

\* ---- C11 -----------------------------------------------------------------
\* C11: when a dispatch has run to its end, every responder has, for each
\* channel whose credentials are missing, a row marking the attempt as skipped
\* for lack of configuration.
C11_UnconfiguredAccounted ==
    mcResponse = 200 =>
        \A r \in McTargets : \A ch \in CredentialChannels(r[1]) :
            ~Configured(ch) =>
                \E row \in McRowsFor(r, ch) : row.status = "pending_config"

\* ---- C12 -----------------------------------------------------------------
\* position of a status in the order triggered, notified, resolved
StatusRank(st) ==
    IF st = "resolved" THEN 3
    ELSE IF st = "notified" THEN 2
    ELSE IF st = "triggered" THEN 1
    ELSE 0

\* C12: the alert's status only moves forward in the order triggered,
\* notified, resolved, however the dispatcher's status write and a manual
\* resolveAlert interleave; a resolved alert stays resolved.
C12_StatusMonotone ==
    [][StatusRank(alertStatus') >= StatusRank(alertStatus)]_vars

\* ---- C13 -----------------------------------------------------------------
\* C13: once the alert row is persisted, trigger-emergency answers with a
\* success acknowledgment that carries the alert id and the responder counts,
\* whatever the channels and the emergency-alert call did.
C13_DefinitiveAck ==
    (entry = "trigger-emergency" /\ pc = "done" /\ alertStatus # "absent") =>
        /\ callerResponse.status = 200
        /\ callerResponse.success
        /\ callerResponse.alert_id
        /\ callerResponse.counts

\* ---- C14 -----------------------------------------------------------------
\* C14: a dispatch that has started notifying always reaches status notified;
\* no provider call, however slow or silent, holds the transition back for
\* ever.
C14_BoundedProviderWaits ==
    (pc = "ea_hospitals") ~> (alertStatus = "notified")

\* ---- C15 -----------------------------------------------------------------
McContactTargets == {r \in McTargets : r[1] = "contact"}

\* C15: when a dispatch has run to its end, every contact has been sent a
\* message over each channel that is configured, whether or not another
\* channel is configured and whatever another channel's send did.
C15_ChannelIndependence ==
    mcResponse = 200 =>
        \A r \in McContactTargets : \A ch \in CredentialChannels("contact") :
            Configured(ch) => <<r[1], r[2], ch>> \in mcStarted


\* ---- responder ranking ----------------------------------------------------
\* the rows of the table read that carry both capability flags
EligibleIds == {k \in DOMAIN rkTable : rkTable[k].has_ambulance /\ rkTable[k].is_multi_facility}

RankedIds == {rkRanked[p].id : p \in DOMAIN rkRanked}

\* the distance from the request to the k-th row of the table
DistanceTo(k) == calculateDistance(rkLatitude, rkTable[k].latitude)

\* row a is to be ranked ahead of row b: nearer, or as near and earlier in the input
Ahead(a, b) == DistanceTo(a) < DistanceTo(b) \/ (DistanceTo(a) = DistanceTo(b) /\ a < b)

Analyzed == sgAt = "returned" /\ sgResponse = 200

\* neither ONNX_SERVICE_URL nor the Hugging Face key and model are set
NoClassifier == ~onnxUrl /\ ~hfConfigured

\* at least 200 samples, the first half at one value and the second half at twice it
IsStepWindow == Len(signal) >= 200 /\ signal = StepWindow(Len(signal), signal[1])

StElevationReported ==
    /\ detectSTElevation(signal)
    /\ Includes(patterns, "st_elevation")
    /\ risk_level = "high"

\* C17 as stated: for every window of at least 200 samples whose first half is
\* a constant B and whose second half is 2B, detectSTElevation returns true and
\* analyzeSignal without a classifier reports st_elevation with risk_level high
C17_StepDetected ==
    (Analyzed /\ NoClassifier /\ IsStepWindow) => StElevationReported

\* C17 for a baseline above zero: every window of at least 200 samples whose
\* first half is a constant B > 0 and whose second half is 2B makes
\* detectSTElevation return true and analyzeSignal without a classifier report
\* st_elevation with risk_level high
C17_PositiveStepDetected ==
    (Analyzed /\ NoClassifier /\ IsStepWindow /\ signal[1] > 0) => StElevationReported

\* the window of the tests, 200 samples at 100 and 200 samples at 200, analyzed
C17_Witness ==
    /\ Analyzed /\ NoClassifier /\ IsStepWindow
    /\ Len(signal) = 400 /\ signal[1] = 100
    /\ StElevationReported

LowAndClear == risk_level = "low" /\ patterns = << >>

\* C18: every window shorter than 20 samples, at any sampling rate, analyzed
\* without a classifier, gets risk_level low and no pattern
C18_ShortWindowLow ==
    (Analyzed /\ NoClassifier /\ Len(signal) < MIN_WINDOW) => LowAndClear

\* every sample has the same value
IsFlat == \A k \in DOMAIN signal : signal[k] = signal[1]

\* C19: every window whose samples are all equal, of any length and value,
\* analyzed without a classifier, gets risk_level low and no pattern
C19_FlatLow ==
    (Analyzed /\ NoClassifier /\ IsFlat) => LowAndClear

\* a flat window long enough for every heuristic to act, analyzed
C19_Witness ==
    /\ Analyzed /\ NoClassifier /\ IsFlat
    /\ Len(signal) = 200 /\ signal[1] = 1000
    /\ LowAndClear

\* low < medium < high
RiskRank(r) == CASE r = "low" -> 0 [] r = "medium" -> 1 [] r = "high" -> 2 [] OTHER -> NULL

\* C20: whatever the classifiers answer, the result returned holds every
\* pattern of the heuristic result and its risk_level is not below the
\* heuristic risk_level
C20_MergeAdditive ==
    Analyzed =>
        /\ \A k \in DOMAIN heuristic.patterns : Includes(patterns, heuristic.patterns[k])
        /\ RiskRank(risk_level) >= RiskRank(heuristic.risk_level)

\* no classifier call was answered ok: none is configured, or each call that
\* was made came back not ok or threw
NoneAnsweredOk == onnxRes # "ok" /\ hfRes # "ok"

\* the result is the heuristic result as it stands
HeuristicAsIs ==
    /\ source = "heuristic"
    /\ patterns = heuristic.patterns
    /\ risk_level = heuristic.risk_level
    /\ details = heuristic.details

\* C21: a request with a signal, for which no classifier is configured or
\* every classifier call came back not ok or threw, is answered 200 with
\* _source heuristic and with exactly the patterns, risk_level, bpm, sdnn and
\* peaks of the heuristic
C21_FailureFallsBack ==
    (sgAt = "returned" /\ Len(signal) > 0 /\ NoneAnsweredOk) =>
        (sgResponse = 200 /\ HeuristicAsIs)

\* both classifiers were configured and both calls failed, for a window on which
\* the heuristic found beats and a pattern
C21_Witness ==
    /\ Analyzed /\ onnxUrl /\ hfConfigured
    /\ onnxRes = "failed" /\ hfRes \in {"not_ok", "threw"}
    /\ heuristic.patterns # << >> /\ heuristic.details.bpm # NULL
    /\ HeuristicAsIs

\* the risk_level the default scoring gives the patterns p
RiskOf(p) ==
    IF Includes(p, "st_elevation") THEN "high"
    ELSE IF Includes(p, "possible_afib") \/ Includes(p, "tachycardia") THEN "medium"
    ELSE "low"

\* C22: in every result analyzeSignal returns, with or without a classifier
\* merge, risk_level is high when st_elevation is among the patterns,
\* otherwise medium when possible_afib or tachycardia is, otherwise low
C22_RiskFollowsPatterns ==
    Analyzed => risk_level = RiskOf(patterns)

\* the window is zero except for equal spikes above zero at index 0 and every
\* Period samples after it, with at least one spike after index 0
FirstSpikeAfterStart ==
    CHOOSE k \in 2..Len(signal) : signal[k] # 0 /\ \A m \in 2..(k - 1) : signal[m] = 0
Period == FirstSpikeAfterStart - 1
IsSpikeTrain ==
    /\ Len(signal) >= 2
    /\ signal[1] > 0
    /\ \E k \in 2..Len(signal) : signal[k] # 0
    /\ signal = SpikeTrain(Len(signal), Period, signal[1])

\* Period / sampling_rate > 0.18
SlowerThanRefractory == 50 * Period > 9 * sampling_rate

\* the peaks are the places in from..to where the window has a spike
PeaksAreSpikesIn(from, to) ==
    /\ Range(heuristic.peaks) = {k \in from..to : signal[k] # 0}
    /\ Len(heuristic.peaks) = Cardinality(Range(heuristic.peaks))

\* bpm = 60 * sampling_rate / Period: there is an RR interval and their mean is Period
BpmOfPeriod ==
    /\ Len(heuristic.peaks) >= 2
    /\ heuristic.peaks[Len(heuristic.peaks)] - heuristic.peaks[1]
           = (Len(heuristic.peaks) - 1) * Period
    /\ details.bpm # NULL

\* the window of the tests: 10 s at 250 Hz with a spike every 0.8 s
IsTestTrain == Len(signal) = 2500 /\ Period = 200 /\ sampling_rate = 250

\* at least 9 peaks and a bpm within 6 of 75
NearSeventyFive ==
    /\ Len(heuristic.peaks) >= 9
    /\ details.bpm > 690 /\ details.bpm < 810

\* C23 as stated: for every window that is zero except for equal spikes every
\* P samples, at a sampling rate sr with P / sr > 0.18, detectBeats accepts
\* exactly one peak per spike after index 0 and reports bpm = 60 * sr / P
C23_SpikeTrainBeats ==
    (Analyzed /\ NoClassifier /\ IsSpikeTrain /\ SlowerThanRefractory) =>
        (PeaksAreSpikesIn(2, Len(signal)) /\ BpmOfPeriod)

\* C23 for windows of at least 100 samples and periods of at least 16: for
\* every such window that is zero except for equal spikes every P samples, at
\* a sampling rate sr with P / sr > 0.18, detectBeats accepts exactly one peak
\* per spike after index 0 and before the last index and, given two such
\* spikes, reports bpm = 60 * sr / P; for 10 s at 250 Hz with a spike every
\* 0.8 s that is at least 9 peaks and a bpm within 6 of 75
C23_LongSpikeTrainBeats ==
    (/\ Analyzed /\ NoClassifier /\ IsSpikeTrain /\ SlowerThanRefractory
     /\ Len(signal) >= 100 /\ Period >= 16) =>
        /\ PeaksAreSpikesIn(2, Len(signal) - 1)
        /\ Len(heuristic.peaks) >= 2 => BpmOfPeriod
        /\ IsTestTrain => NearSeventyFive

\* the window of the tests analyzed: 12 peaks, 200 samples apart
C23_Witness ==
    /\ Analyzed /\ NoClassifier /\ IsSpikeTrain /\ SlowerThanRefractory
    /\ IsTestTrain
    /\ Len(heuristic.peaks) = 12
    /\ BpmOfPeriod
    /\ details.bpm = 750

\* Hugging Face answered ok with an object that carries a summary
HfSummarised == Analyzed /\ hfRes = "ok" /\ hfData.summary

\* C24: when Hugging Face is configured and answers ok with a structured
\* object that carries a summary, the result has _source huggingface, its
\* patterns hold every pattern the answer lists, its risk_level is the
\* risk_level of the answer (when the answer has one) and its details.bpm is
\* the bpm of the answer when the answer has one
C24_HuggingFaceUsed ==
    HfSummarised =>
        /\ source = "huggingface"
        /\ \A k \in DOMAIN hfData.patterns.items : Includes(patterns, hfData.patterns.items[k])
        /\ hfData.risk_level # "" => risk_level = hfData.risk_level
        /\ hfData.details.bpm # NULL => details.bpm = hfData.details.bpm

\* the answer of the tests (a summary, st_elevation, high, bpm 85) to a window on
\* which the heuristic found other beats, no pattern and a low risk
C24_Witness ==
    /\ HfSummarised
    /\ hfData.patterns.items = <<"st_elevation">>
    /\ hfData.risk_level = "high"
    /\ hfData.details = [bpm |-> 850, sdnn |-> NULL, peaks |-> NULL]
    /\ heuristic.risk_level = "low" /\ heuristic.patterns = << >>
    /\ heuristic.details.bpm \notin {NULL, 850}
    /\ source = "huggingface" /\ risk_level = "high" /\ details.bpm = 850
    /\ details.peaks = heuristic.details.peaks
    /\ Includes(patterns, "st_elevation")

\* ---- the auto-trigger: timers, payload, stopping ---------------------------
\* C29: in every reachable state of the auto-trigger, armed is true exactly
\* when a countdown interval is registered, exactly when countdown is a
\* number, and a countdown that is a number is one of 3, 2, 1
C29_ArbiterConsistent ==
    /\ armed <=> armingTimerRef
    /\ armed <=> countdown # NULL
    /\ countdown # NULL => countdown \in 1..ARM_COUNTDOWN

\* armed for the second time, after a fire whose dispatch is still pending,
\* with the countdown at its last second
C29_Witness ==
    /\ armed /\ armingTimerRef /\ countdown = 1
    /\ inFlight > 0

\* the effect processes a risk value at or above the threshold while Armed and
\* enabled
UpdateWhileArmed == RunEffect /\ autoTriggerEnabled /\ armed /\ AboveThreshold(stPercent)

\* C25: at most one countdown interval is registered at any time; a risk
\* update at or above the threshold processed while Armed registers no second
\* interval and leaves the countdown as it is; and no arming episode fires twice
C25_NoDoubleArming ==
    [][/\ intervals' <= 1
       /\ UpdateWhileArmed => UNCHANGED <<intervals, armingTimerRef, countdown, armed>>
       /\ Fires => episode # "fired"]_vars

\* Armed, the effect has run again at 30 percent and the one interval counts on
C25_Witness ==
    /\ armed /\ intervals = 1 /\ countdown = 2
    /\ stPercent = 30 /\ ~effectPending
    /\ sustained # NULL /\ sustained > SUSTAIN_SECONDS

\* C26: the payload of the escalation fired at countdown zero carries the
\* stPercent and the location current at the moment of firing, not those
\* current when the countdown was armed (the sample window is read from
\* bufferRef.current when the payload is built)
C26_PayloadIsCurrent ==
    [][Fires => payload' = [stPercent |-> stPercent, location |-> location]]_vars

\* the effect runs with auto-trigger switched off
StopProcessed == RunEffect /\ ~autoTriggerEnabled

\* C27: when auto-trigger is switched off while Sustaining or Armed, the
\* sustain start is cleared and the countdown interval is cancelled, so that a
\* later arming measures its 5 s from a new sustain start, and no escalation
\* fires from that episode
C27_StopResets ==
    [][/\ (StopProcessed /\ (Sustaining \/ armed)) =>
              (Idle' /\ stSinceRef' = NULL /\ intervals' = 0)
       /\ Fires => episode # "stopped"]_vars

\* ---- ecg-ingest ------------------------------------------------------------
\* the request inserted an emergency_alerts row and called emergency-alert
CreatesAlert == igAlerts' = igAlerts + 1

\* C28: any two emergency alerts that ecg-ingest creates and dispatches for the
\* readings of one device are at least the cooldown window apart; readings
\* that follow an ST-positive reading at once do not each create an alert
C28_IngestRateLimited ==
    [][CreatesAlert => (igSinceAlert = NULL \/ igSinceAlert >= RateLimitTicks)]_vars

\* ---- useECGData ------------------------------------------------------------
\* a reading has arrived less than the timeout ago
RecentReading == sinceReading # NULL /\ sinceReading < ConnectionSeconds

\* C30: isConnected is true when a reading arrives and goes back to false only
\* after 5 seconds without a new reading: it is never false while a reading
\* has arrived within the last 5 seconds
C30_ConnectedWhileRecent == RecentReading => isConnected

====
